---- MODULE Spec2Model ----
(***************************************************************************)
(* Schema derivation and data ingestion of doc2db (backend/llm_client.py,  *)
(* backend/schema_engine.py, backend/main.py).                             *)
(*                                                                         *)
(* Text is modelled as a sequence of pieces.  A piece is a short run of    *)
(* characters: one character for the characters the code looks at          *)
(* (space, newline, tab, semicolon, double quote, parentheses, comma) and  *)
(* one word for everything else.  No piece is a prefix of another piece a  *)
(* name can hold, so two names are equal exactly when their piece          *)
(* sequences are equal.                                                    *)
(***************************************************************************)
EXTENDS Integers, Sequences, FiniteSets, TLC

VARIABLES
    doc,           \* the uploaded document and what the extraction oracle answers for it
    extraction,    \* the row of the metadata table "extractions" (models.Extraction), or NoRow
    db,            \* the project's target SQLite database (schema_engine)
    last,          \* the last call: its name, what it returned or that it raised
    executed,      \* statements the last run_ddl passed to conn.execute, in order
    resolved,      \* per row the last insert_extracted_data resolved: columns, row, values
    calls          \* number of calls made so far

vars == <<doc, extraction, db, last, executed, resolved, calls>>

----------------------------------------------------------------------------
(* Bounds *)

MaxCalls == 3          \* calls made in one behaviour

----------------------------------------------------------------------------
(* Python str operations, on piece sequences *)

QUOTE == "\""
SEMI == ";"
SPACE == " "
NL == "\n"
TAB == "\t"

Whitespace == {SPACE, NL, TAB}

\* str.lower() of one piece
LowerPiece(p) ==
    CASE p = "Book" -> "book"
      [] p = "Title" -> "title"
      [] p = "TITLE" -> "title"
      [] p = "Author" -> "author"
      [] p = "AUTHOR" -> "author"
      [] p = "Year" -> "year"
      [] p = "ID" -> "id"
      [] p = "Id" -> "id"
      [] p = "Data" -> "data"
      [] p = "SqliteData" -> "sqlitedata"
      [] OTHER -> p

\* str.upper() of one piece (only applied to declared types)
UpperPiece(p) ==
    CASE p = "integer" -> "INTEGER"
      [] p = "text" -> "TEXT"
      [] p = "varchar" -> "VARCHAR"
      [] OTHER -> p

lower(s) == [i \in DOMAIN s |-> LowerPiece(s[i])]

\* s.replace(" ", "_")
replace_space(s) == [i \in DOMAIN s |-> IF s[i] = SPACE THEN "_" ELSE s[i]]

RECURSIVE lstrip(_)
lstrip(s) == IF s # <<>> /\ Head(s) \in Whitespace THEN lstrip(Tail(s)) ELSE s

RECURSIVE rstrip(_)
rstrip(s) ==
    IF s # <<>> /\ s[Len(s)] \in Whitespace
    THEN rstrip(SubSeq(s, 1, Len(s) - 1))
    ELSE s

\* str.strip()
strip(s) == rstrip(lstrip(s))

\* str.split(sep) for a one-character separator: Len = occurrences + 1
RECURSIVE split(_, _)
split(s, sep) ==
    IF \A i \in DOMAIN s : s[i] # sep
    THEN <<s>>
    ELSE LET k == CHOOSE i \in DOMAIN s : s[i] = sep /\ \A j \in 1..(i - 1) : s[j] # sep
         IN  <<SubSeq(s, 1, k - 1)>> \o split(SubSeq(s, k + 1, Len(s)), sep)

\* sep.join(parts)
RECURSIVE join(_, _)
join(parts, sep) ==
    IF parts = <<>> THEN <<>>
    ELSE IF Len(parts) = 1 THEN parts[1]
    ELSE parts[1] \o sep \o join(Tail(parts), sep)

\* dict.get(key, default)
Get(d, key, default) == IF key \in DOMAIN d THEN d[key] ELSE default

----------------------------------------------------------------------------
(* Schema Renderer: llm_client.schema_to_ddl *)

CREATE_KW == "CREATE TABLE IF NOT EXISTS"
PK_KW == "PRIMARY KEY AUTOINCREMENT"
FK_COMMENT == "-- FK:"
ALTER_COMMENT == "-- ALTER TABLE"

SqlTypes == {"INTEGER", "REAL", "TEXT", "DATE", "BLOB"}

\* t = (a.get("type") or "TEXT").upper(); if t not in (...): t = "TEXT"
ColumnType(a) ==
    LET declared == Get(a, "type", "")
        t == UpperPiece(IF declared = "" THEN "TEXT" ELSE declared)
    IN  IF t \in SqlTypes THEN t ELSE "TEXT"

\* f'  "{col_name}" {t}'
ColDef(a) ==
    <<SPACE, SPACE, QUOTE>> \o replace_space(Get(a, "name", <<"col">>))
        \o <<QUOTE, SPACE, ColumnType(a)>>

IdColDef == <<SPACE, SPACE, QUOTE, "id", QUOTE, SPACE, "INTEGER", SPACE, PK_KW>>

\* attrs = ent.get("attributes", []); if not attrs: attrs = [{"name": "id", "type": "INTEGER"}]
EntityAttrs(ent) ==
    LET attrs == Get(ent, "attributes", <<>>)
    IN  IF attrs = <<>> THEN <<[name |-> <<"id">>, type |-> "INTEGER"]>> ELSE attrs

\* not any(c.get("name") == "id" for c in attrs)
DeclaresId(attrs) ==
    \E i \in DOMAIN attrs : "name" \in DOMAIN attrs[i] /\ attrs[i].name = <<"id">>

\* the test for a declared id made ignoring case
NeedsIdColumnIgnoringCase(attrs) ==
    ~\E i \in DOMAIN attrs : "name" \in DOMAIN attrs[i] /\ lower(attrs[i].name) = <<"id">>

NeedsIdColumn(attrs) == ~DeclaresId(attrs)

\* the col_defs list of one entity
ColDefs(ent) ==
    LET attrs == EntityAttrs(ent)
        declared == [i \in DOMAIN attrs |-> ColDef(attrs[i])]
    IN  IF NeedsIdColumn(attrs) THEN <<IdColDef>> \o declared ELSE declared

\* the CREATE TABLE line of one entity
EntityLine(ent) ==
    <<CREATE_KW, SPACE, QUOTE>> \o replace_space(Get(ent, "name", <<"Table">>))
        \o <<QUOTE, SPACE, "(", NL>>
        \o join(ColDefs(ent), <<",", NL>>)
        \o <<NL, ")", SEMI>>

\* the lines of one relationship: none unless fk_in is set
RelationshipLines(rel) ==
    LET fk_in == Get(rel, "fk_in", <<>>)
        from_ent == replace_space(Get(rel, "from", <<>>))
        fk_table == replace_space(fk_in)
    IN  IF fk_in = <<>> THEN <<>>
        ELSE << <<FK_COMMENT, SPACE>> \o from_ent \o <<".id", SPACE, "->", SPACE>>
                   \o fk_table \o <<".">> \o lower(from_ent) \o <<"_id">>,
                <<ALTER_COMMENT, SPACE, QUOTE>> \o fk_table
                   \o <<QUOTE, SPACE, "ADD COLUMN", SPACE, QUOTE>>
                   \o lower(from_ent) \o <<"_id", QUOTE, SPACE, "INTEGER REFERENCES", SPACE, QUOTE>>
                   \o from_ent \o <<QUOTE, "(id)", SEMI>> >>

RECURSIVE Flatten(_)
Flatten(ss) == IF ss = <<>> THEN <<>> ELSE Head(ss) \o Flatten(Tail(ss))

\* the list "lines" built by the two loops
DdlLines(ex) ==
    LET ents == Get(ex, "entities", <<>>)
        rels == Get(ex, "relationships", <<>>)
    IN  [i \in DOMAIN ents |-> EntityLine(ents[i])]
            \o Flatten([i \in DOMAIN rels |-> RelationshipLines(rels[i])])

schema_to_ddl(ex) == join(DdlLines(ex), <<NL>>)

----------------------------------------------------------------------------
(* Diagram Renderer: llm_client.schema_to_er_mermaid *)

ER_DIAGRAM == "erDiagram"
PLACEHOLDER == "PLACEHOLDER"
Indent == <<SPACE, SPACE, SPACE, SPACE>>

\* attributes shown per entity: ent.get("attributes", [])[:5]
MaxShownAttrs == 5

\* the slice without its bound
TakeAll(lst, n) == lst

\* lst[:n]
Take(lst, n) == SubSeq(lst, 1, IF Len(lst) < n THEN Len(lst) ELSE n)

\* f"        {a.get('type', 'TEXT')} {a.get('name', 'col').replace(' ', '_')}"
ErAttrLine(a) ==
    Indent \o Indent \o <<Get(a, "type", "TEXT"), SPACE>>
        \o replace_space(Get(a, "name", <<"col">>))

\* the lines of one entity: name and opening brace, shown attributes, closing brace
ErEntityLines(ent) ==
    LET attrs == Take(Get(ent, "attributes", <<>>), MaxShownAttrs)
    IN  <<Indent \o replace_space(Get(ent, "name", <<"Table">>)) \o <<SPACE, "{">>>>
            \o [i \in DOMAIN attrs |-> ErAttrLine(attrs[i])]
            \o <<Indent \o <<"}">>>>

\* "many-to-many" in rtype
IsManyToMany(rtype) == rtype = "many-to-many"

\* the line of one relationship
ErRelationshipLine(rel) ==
    Indent \o replace_space(Get(rel, "from", <<>>))
        \o <<SPACE, IF IsManyToMany(Get(rel, "type", "one-to-many")) THEN "}o--o{" ELSE "||--o{",
             SPACE>>
        \o replace_space(Get(rel, "to", <<>>))
        \o <<SPACE, ":", SPACE, QUOTE, QUOTE>>

\* the list "lines"
ErLines(ex) ==
    LET ents == Get(ex, "entities", <<>>)
        rels == Get(ex, "relationships", <<>>)
    IN  <<<<ER_DIAGRAM>>>>
            \o Flatten([i \in DOMAIN ents |-> ErEntityLines(ents[i])])
            \o [i \in DOMAIN rels |-> ErRelationshipLine(rels[i])]

PlaceholderDiagram == <<ER_DIAGRAM, NL>> \o Indent \o <<PLACEHOLDER, SPACE, "{}">>

\* return "\n".join(lines) if len(lines) > 1 else "erDiagram\n    PLACEHOLDER {}"
schema_to_er_mermaid(ex) ==
    IF Len(ErLines(ex)) > 1 THEN join(ErLines(ex), <<NL>>) ELSE PlaceholderDiagram

----------------------------------------------------------------------------
(* The target store: what SQLite does with the statements it is handed *)

\* Values a row can carry after json.loads, and values SQLite stores.
StrVal(s) == <<"str", s>>          \* a string; s is a piece sequence
IntVal(n) == <<"int", n>>
FloatVal(n) == <<"float", n>>      \* the float n.0
None == <<"None">>
Nested == <<"list">>            \* a nested list or mapping: the driver cannot bind it

\* The database file before its creation.
NoDb == [exists |-> FALSE, tables |-> <<>>]

DROP_BOOK == "DROP\tTABLE\tBook"        \* one piece: a whole DROP TABLE statement
SQLITE_SEQUENCE == "sqlite_sequence"

CommentStart == {"--", FK_COMMENT, ALTER_COMMENT}

\* Index of the first occurrence of x in s, 0 when there is none.
IndexOf(s, x) ==
    IF \E i \in DOMAIN s : s[i] = x
    THEN CHOOSE i \in DOMAIN s : s[i] = x /\ \A j \in 1..(i - 1) : s[j] # x
    ELSE 0

\* SQLite's tokenizer: whitespace and "--" comments dropped, a double-quoted run
\* is one identifier, an unterminated quote is an unrecognized token.
RECURSIVE SqlTokens(_)
SqlTokens(s) ==
    IF s = <<>> THEN <<>>
    ELSE IF Head(s) \in Whitespace THEN SqlTokens(Tail(s))
    ELSE IF Head(s) \in CommentStart
         THEN LET k == IndexOf(s, NL)
              IN  IF k = 0 THEN <<>> ELSE SqlTokens(SubSeq(s, k + 1, Len(s)))
    ELSE IF Head(s) = QUOTE
         THEN LET k == IndexOf(Tail(s), QUOTE)
              IN  IF k = 0 THEN << <<"open">> >>
                  ELSE << <<"name", SubSeq(Tail(s), 1, k - 1)>> >>
                           \o SqlTokens(SubSeq(Tail(s), k + 1, Len(s) - 1))
    ELSE << <<"word", Head(s)>> >> \o SqlTokens(Tail(s))

IsName(tok) == tok[1] = "name"
IsWord(tok, w) == tok[1] = "word" /\ tok[2] = w

\* one column definition: "name" TYPE [PRIMARY KEY AUTOINCREMENT]
IsColumnDef(g) ==
    /\ Len(g) \in {2, 3}
    /\ IsName(g[1])
    /\ \E t \in SqlTypes : IsWord(g[2], t)
    /\ Len(g) = 3 => IsWord(g[3], PK_KW)

\* CREATE TABLE IF NOT EXISTS "name" ( coldef {, coldef} )
IsCreateTable(toks) ==
    /\ Len(toks) >= 6
    /\ IsWord(toks[1], CREATE_KW)
    /\ IsName(toks[2])
    /\ IsWord(toks[3], "(")
    /\ IsWord(toks[Len(toks)], ")")
    /\ LET groups == split(SubSeq(toks, 4, Len(toks) - 1), <<"word", ",">>)
       IN  \A i \in DOMAIN groups : IsColumnDef(groups[i])

CreateColumns(toks) ==
    LET groups == split(SubSeq(toks, 4, Len(toks) - 1), <<"word", ",">>)
    IN  [i \in DOMAIN groups |->
            [name |-> groups[i][1][2], type |-> groups[i][2][2], pk |-> Len(groups[i]) = 3]]

\* SQLite compares table and column names ignoring case.
TableIndex(d, name) ==
    IF \E i \in DOMAIN d.tables : lower(d.tables[i].name) = lower(name)
    THEN CHOOSE i \in DOMAIN d.tables : lower(d.tables[i].name) = lower(name)
    ELSE 0

HasDuplicateColumn(cols) ==
    \E i, j \in DOMAIN cols : i < j /\ lower(cols[i].name) = lower(cols[j].name)

SequenceTable ==
    [name |-> <<SQLITE_SEQUENCE>>,
     cols |-> <<[name |-> <<"name">>, type |-> "TEXT", pk |-> FALSE],
                [name |-> <<"seq">>, type |-> "TEXT", pk |-> FALSE]>>,
     rows |-> <<>>]

\* conn.execute(stmt) for a schema statement: the store afterwards, and whether
\* SQLite raised.  Schema statements run outside a transaction: each one that
\* succeeds is durable at once.
SqliteExecute(d, stmt) ==
    LET toks == SqlTokens(stmt)
    IN  IF IsCreateTable(toks)
        THEN LET name == toks[2][2]
                 cols == CreateColumns(toks)
                 new == [name |-> name, cols |-> cols, rows |-> <<>>]
                 auto == \E i \in DOMAIN cols : cols[i].pk
             IN  IF TableIndex(d, name) # 0 THEN [db |-> d, err |-> FALSE]
                 ELSE IF HasDuplicateColumn(cols) THEN [db |-> d, err |-> TRUE]
                 ELSE [db |-> [d EXCEPT !.tables =
                                  IF auto /\ TableIndex(d, <<SQLITE_SEQUENCE>>) = 0
                                  THEN @ \o <<new, SequenceTable>>
                                  ELSE Append(@, new)],
                       err |-> FALSE]
        ELSE IF toks = << <<"word", DROP_BOOK>> >>
        THEN LET k == TableIndex(d, <<"Book">>)
             IN  IF k = 0 THEN [db |-> d, err |-> TRUE]
                 ELSE [db |-> [d EXCEPT !.tables =
                                  SubSeq(@, 1, k - 1) \o SubSeq(@, k + 1, Len(@))],
                       err |-> FALSE]
        ELSE [db |-> d, err |-> TRUE]

----------------------------------------------------------------------------
(* Schema Executor: schema_engine.run_ddl, schema_engine._split_ddl *)

\* [s.strip() for s in ddl.split(";") if s.strip()]
RECURSIVE NonEmptyStripped(_)
NonEmptyStripped(parts) ==
    IF parts = <<>> THEN <<>>
    ELSE (IF strip(Head(parts)) # <<>> THEN <<strip(Head(parts))>> ELSE <<>>)
             \o NonEmptyStripped(Tail(parts))

_split_ddl(ddl) == NonEmptyStripped(split(ddl, SEMI))

\* stmt.startswith("--")
StartsWithDashes(stmt) == stmt # <<>> /\ Head(stmt) \in CommentStart

\* if stmt and not stmt.startswith("--")
IsExecuted(stmt) == stmt # <<>> /\ ~StartsWithDashes(stmt)

\* what conn.execute raising does to the loop: the exception leaves run_ddl
StopOnError(err) == err

\* The for loop of run_ddl.  log: the statements handed to conn.execute so far.
RECURSIVE RunStatements(_, _, _)
RunStatements(d, stmts, log) ==
    IF stmts = <<>> THEN [db |-> d, raised |-> FALSE, executed |-> log]
    ELSE LET stmt == strip(Head(stmts))
         IN  IF IsExecuted(stmt)
             THEN LET r == SqliteExecute(d, stmt)
                  IN  IF StopOnError(r.err)
                      THEN [db |-> r.db, raised |-> TRUE, executed |-> Append(log, stmt)]
                      ELSE RunStatements(r.db, Tail(stmts), Append(log, stmt))
             ELSE RunStatements(d, Tail(stmts), log)

\* run_ddl(project_id, ddl): sqlite3.connect creates the database file
run_ddl(d, ddl) == RunStatements([d EXCEPT !.exists = TRUE], _split_ddl(ddl), <<>>)

----------------------------------------------------------------------------
(* Column Resolver and Data Ingestor: schema_engine._table_columns,        *)
(* schema_engine.insert_extracted_data                                     *)

\* A row of a batch is a mapping, [items |-> <<key, value>> pairs in key order,
\* keys distinct], or, when the decoded JSON holds something else in its place,
\* [scalar |-> value].
IsMapping(row) == "items" \in DOMAIN row

\* PRAGMA table_info("table"): the column records, none for a missing table
TableInfo(d, table) ==
    LET k == TableIndex(d, table) IN IF k = 0 THEN <<>> ELSE d.tables[k].cols

\* every column kept, a first column named id included
TableColumnPositionsKeepId(infos) == [i \in DOMAIN infos |-> i]

\* _table_columns: the positions (in the table) of the columns it returns
TableColumnPositions(infos) ==
    IF infos # <<>> /\ lower(infos[1].name) = <<"id">>
    THEN [i \in 1..(Len(infos) - 1) |-> i + 1]
    ELSE [i \in DOMAIN infos |-> i]

_table_columns(d, table) ==
    LET infos == TableInfo(d, table)
        pos == TableColumnPositions(infos)
    IN  [i \in DOMAIN pos |-> infos[pos[i]].name]

\* the comparison without the lower() calls
KeyMatchesExactly(row_k, tc) == row_k = tc

\* str(row_k).lower() == tc.lower()
KeyMatches(row_k, tc) == lower(row_k) = lower(tc)

\* the inner for loop over row.items(), with its break
RowValue(items, tc) ==
    IF \E j \in DOMAIN items : KeyMatches(items[j][1], tc)
    THEN LET j == CHOOSE j \in DOMAIN items :
                     /\ KeyMatches(items[j][1], tc)
                     /\ \A h \in 1..(j - 1) : ~KeyMatches(items[h][1], tc)
         IN  items[j][2]
    ELSE None

\* the loop "for tc in table_cols" building vals
RECURSIVE ResolveFrom(_, _, _)
ResolveFrom(items, table_cols, col_lower_to_real) ==
    IF table_cols = <<>> THEN <<>>
    ELSE (IF lower(Head(table_cols)) \in col_lower_to_real
          THEN <<RowValue(items, Head(table_cols))>>
          ELSE <<>>)
             \o ResolveFrom(items, Tail(table_cols), col_lower_to_real)

\* vals of one row; col_lower_to_real is represented by its key set
ResolveRow(items, table_cols) ==
    ResolveFrom(items, table_cols, {lower(table_cols[i]) : i \in DOMAIN table_cols})

\* "1965" is the one piece that reads as a number
IsNumericText(v) == v = StrVal(<<"1965">>)

\* SQLite's column affinity, from the declared type, applied to a bound value
Affinity(type, v) ==
    CASE type = "TEXT" /\ v = IntVal(1965) -> StrVal(<<"1965">>)
      [] type \in {"INTEGER", "DATE"} /\ IsNumericText(v) -> IntVal(1965)
      [] type = "REAL" /\ (IsNumericText(v) \/ v = IntVal(1965)) -> FloatVal(1965)
      [] OTHER -> v

\* the driver binds str, int, float and None; anything else raises
CanBind(vals) == \A i \in DOMAIN vals : vals[i] # Nested

\* the row SQLite stores for INSERT INTO table (table_cols) VALUES (vals)
StoredRow(tbl, vals) ==
    LET pos == TableColumnPositions(tbl.cols)
    IN  [c \in DOMAIN tbl.cols |->
            IF \E i \in DOMAIN pos : pos[i] = c
            THEN Affinity(tbl.cols[c].type, vals[CHOOSE i \in DOMAIN pos : pos[i] = c])
            ELSE IF tbl.cols[c].pk THEN IntVal(Len(tbl.rows) + 1)
            ELSE None]

\* total += 1 moved out of the try
InsertOneCountedAnyway(d, k, vals) ==
    IF CanBind(vals)
    THEN [db |-> [d EXCEPT !.tables[k].rows = Append(@, StoredRow(d.tables[k], vals))],
          inserted |-> 1]
    ELSE [db |-> d, inserted |-> 1]

\* try: conn.execute(INSERT ...); total += 1  except Exception: pass
InsertOne(d, k, vals) ==
    IF CanBind(vals)
    THEN [db |-> [d EXCEPT !.tables[k].rows = Append(@, StoredRow(d.tables[k], vals))],
          inserted |-> 1]
    ELSE [db |-> d, inserted |-> 0]

\* One pass of the loop "for row in rows": acc is the connection's view of the
\* store, the count and the resolver log so far.  A row that is no mapping
\* raises out of the call (row.items() is outside every try).
InsertRow(acc, k, row) ==
    IF ~IsMapping(row) THEN [acc EXCEPT !.raised = TRUE]
    ELSE LET table_cols == _table_columns(acc.db, acc.db.tables[k].name)
             vals == ResolveRow(row.items, table_cols)
             r == IF Len(vals) # Len(table_cols)
                  THEN [db |-> acc.db, inserted |-> 0]
                  ELSE InsertOne(acc.db, k, vals)
         IN  [db |-> r.db, total |-> acc.total + r.inserted, raised |-> FALSE,
              resolved |-> Append(acc.resolved,
                                  [table |-> acc.db.tables[k].name, cols |-> table_cols,
                                   row |-> row.items, vals |-> vals])]

\* the loop "for row in rows" of one block
RECURSIVE InsertRows(_, _, _)
InsertRows(acc, k, rows) ==
    IF rows = <<>> \/ acc.raised THEN acc
    ELSE InsertRows(InsertRow(acc, k, Head(rows)), k, Tail(rows))

\* table = (block.get("table") or "data").replace(" ", "_")
BlockTable(block) ==
    replace_space(IF Get(block, "table", <<>>) = <<>> THEN <<"data">> ELSE block.table)

\* if not rows: continue ... if not table_cols: continue
SkipsBlock(d, block) ==
    Get(block, "rows", <<>>) = <<>> \/ _table_columns(d, BlockTable(block)) = <<>>

\* one pass of the loop "for block in table_data"
InsertBlock(acc, block) ==
    IF SkipsBlock(acc.db, block) THEN acc
    ELSE InsertRows(acc, TableIndex(acc.db, BlockTable(block)), block.rows)

\* the loop "for block in table_data"
RECURSIVE InsertBlocks(_, _)
InsertBlocks(acc, blocks) ==
    IF blocks = <<>> \/ acc.raised THEN acc
    ELSE InsertBlocks(InsertBlock(acc, Head(blocks)), Tail(blocks))

\* the call without the test "if not path.exists(): return 0": sqlite3.connect
\* creates the database file
insert_extracted_data_connect_first(d, table_data) ==
    IF table_data = <<>>
    THEN [db |-> d, total |-> 0, raised |-> FALSE, resolved |-> <<>>]
    ELSE LET r == InsertBlocks([db |-> [d EXCEPT !.exists = TRUE], total |-> 0,
                                raised |-> FALSE, resolved |-> <<>>],
                               table_data)
         IN  IF r.raised THEN [r EXCEPT !.db = [d EXCEPT !.exists = TRUE]] ELSE r

\* insert_extracted_data(project_id, extraction, table_data).  The inserts of a
\* call are one transaction: conn.commit() at the end of the loop, and
\* conn.close() without a commit (the call raised) rolls them back.
insert_extracted_data(d, table_data) ==
    IF table_data = <<>> \/ ~d.exists
    THEN [db |-> d, total |-> 0, raised |-> FALSE, resolved |-> <<>>]
    ELSE LET r == InsertBlocks([db |-> d, total |-> 0, raised |-> FALSE, resolved |-> <<>>],
                               table_data)
         IN  IF r.raised THEN [r EXCEPT !.db = d] ELSE r

----------------------------------------------------------------------------
(* Preview Projector: schema_engine.get_table_preview *)

PreviewLimit == 5

\* the pieces whose text matches LIKE 'sqlite_%': "sqlite" ignoring case, then
\* any one character (the "_" of a LIKE pattern is a wildcard), then anything
LikeSqlitePrefix == {SQLITE_SEQUENCE, "SqliteData", "sqlitedata"}

\* name NOT LIKE 'sqlite_%'
IsUserTable(name) == ~(name # <<>> /\ Head(name) \in LikeSqlitePrefix)

\* SELECT * FROM "name" LIMIT ?
FirstRows(rows, limit) == SubSeq(rows, 1, IF Len(rows) < limit THEN Len(rows) ELSE limit)

\* dict(zip(cols, r))
PreviewRow(cols, r) == [i \in DOMAIN cols |-> <<cols[i], r[i]>>]

RECURSIVE PreviewTables(_, _)
PreviewTables(tables, limit) ==
    IF tables = <<>> THEN <<>>
    ELSE LET t == Head(tables)
             cols == [i \in DOMAIN t.cols |-> t.cols[i].name]
             rows == FirstRows(t.rows, limit)
         IN  (IF IsUserTable(t.name)
              THEN <<[table_name |-> t.name, columns |-> cols,
                      rows |-> [i \in DOMAIN rows |-> PreviewRow(cols, rows[i])]]>>
              ELSE <<>>)
                 \o PreviewTables(Tail(tables), limit)

get_table_preview(d, limit) == IF ~d.exists THEN <<>> ELSE PreviewTables(d.tables, limit)

----------------------------------------------------------------------------
(* The persisted row batch: json.dumps in _do_extract, json.loads in       *)
(* apply_schema.  JSON text is modelled by its parse tree.                 *)

JsonValue(v) ==
    CASE v[1] = "str" -> [j |-> "string", s |-> v[2]]
      [] v[1] = "int" -> [j |-> "number", n |-> v[2]]
      [] v[1] = "None" -> [j |-> "null"]
      [] OTHER -> [j |-> "array"]

PyValue(node) ==
    CASE node.j = "string" -> StrVal(node.s)
      [] node.j = "number" -> IntVal(node.n)
      [] node.j = "null" -> None
      [] OTHER -> Nested

JsonRow(row) ==
    IF IsMapping(row)
    THEN [j |-> "object",
          members |-> [i \in DOMAIN row.items |->
                          <<row.items[i][1], JsonValue(row.items[i][2])>>]]
    ELSE [j |-> "string", s |-> row.scalar]

PyRow(node) ==
    IF node.j = "object"
    THEN [items |-> [i \in DOMAIN node.members |->
                        <<node.members[i][1], PyValue(node.members[i][2])>>]]
    ELSE [scalar |-> node.s]

JsonBlock(block) ==
    [j |-> "object",
     table |-> IF "table" \in DOMAIN block THEN <<[j |-> "string", s |-> block.table]>> ELSE <<>>,
     rows |-> IF "rows" \in DOMAIN block
              THEN <<[j |-> "array",
                      items |-> [i \in DOMAIN block.rows |-> JsonRow(block.rows[i])]]>>
              ELSE <<>>]

PyBlock(node) ==
    LET rows == IF node.rows = <<>> THEN <<>>
                ELSE [i \in DOMAIN node.rows[1].items |-> PyRow(node.rows[1].items[i])]
    IN  IF node.table = <<>> THEN [rows |-> rows]
        ELSE [table |-> node.table[1].s, rows |-> rows]

\* json.dumps(table_data)
json_dumps(table_data) ==
    [j |-> "array", items |-> [i \in DOMAIN table_data |-> JsonBlock(table_data[i])]]

\* json.loads(extraction_data_raw)
json_loads(text) == [i \in DOMAIN text.items |-> PyBlock(text.items[i])]

----------------------------------------------------------------------------
(* Source Selector: main._do_extract, llm_client.extract_table_data_from_image *)

Digit == <<"0", "1", "2", "3">>

\* columns = [a.get("name", "col") for a in attrs if a.get("name", "col").lower() != "id"]
RECURSIVE NonIdNames(_)
NonIdNames(attrs) ==
    IF attrs = <<>> THEN <<>>
    ELSE LET n == Get(Head(attrs), "name", <<"col">>)
         IN  (IF lower(n) # <<"id">> THEN <<n>> ELSE <<>>) \o NonIdNames(Tail(attrs))

\* DATA_EXTRACT_PROMPT.format(columns=columns, table_name=table_name): the
\* template shows the JSON shape with single braces, so str.format reads
\* {"table_data": ...} as a replacement field and raises KeyError
PromptFormats == FALSE

\* extract_table_data_from_image(path, mime, entities); answer is what the oracle
\* would return for the row-recovery prompt.  asked: the oracle call was made;
\* raised: the function raised before making it.
extract_table_data_from_image(entities, answer) ==
    IF entities = <<>> THEN [table_data |-> <<>>, asked |-> FALSE, raised |-> FALSE, prompts |-> <<>>]
    ELSE LET columns == NonIdNames(Get(entities[1], "attributes", <<>>))
             table_name == replace_space(Get(entities[1], "name", <<"Data">>))
         IN  IF columns = <<>>
             THEN [table_data |-> <<>>, asked |-> FALSE, raised |-> FALSE, prompts |-> <<>>]
             ELSE IF ~PromptFormats
             THEN [table_data |-> <<>>, asked |-> FALSE, raised |-> TRUE, prompts |-> <<>>]
             ELSE [table_data |-> answer, asked |-> TRUE, raised |-> FALSE,
                   prompts |-> <<[table_name |-> table_name, columns |-> columns]>>]

\* headers = [h.strip() or f"col_{i}" for i, h in enumerate(file_rows_for_data[0])]
Headers(row0) ==
    [i \in DOMAIN row0 |->
        IF strip(row0[i]) # <<>> THEN strip(row0[i]) ELSE <<"col_", Digit[i]>>]

\* dict(zip(headers, row)) as key/value pairs: a repeated key keeps its first
\* position and takes the last value
RECURSIVE DictZip(_, _, _)
DictZip(headers, row, acc) ==
    IF headers = <<>> \/ row = <<>> THEN acc
    ELSE LET k == Head(headers)
             v == StrVal(Head(row))
             at == IF \E i \in DOMAIN acc : acc[i][1] = k
                   THEN CHOOSE i \in DOMAIN acc : acc[i][1] = k
                   ELSE 0
         IN  DictZip(Tail(headers), Tail(row),
                     IF at = 0 THEN Append(acc, <<k, v>>) ELSE [acc EXCEPT ![at] = <<k, v>>])

\* every data row kept, whatever its length
KeepsEveryRow(row, headers) == TRUE

\* keep: if len(row) >= len(headers)
KeepsRow(row, headers) == Len(row) >= Len(headers)

\* rows = [dict(zip(headers, row)) for row in file_rows_for_data[1:] if len(row) >= len(headers)]
RECURSIVE HeaderRows(_, _)
HeaderRows(headers, data) ==
    IF data = <<>> THEN <<>>
    ELSE (IF KeepsRow(Head(data), headers)
          THEN <<[items |-> DictZip(headers, Head(data), <<>>)]>>
          ELSE <<>>)
             \o HeaderRows(headers, Tail(data))

\* entity_name = (extraction.get("entities") or [{}])[0].get("name", "Data").replace(" ", "_")
FallbackTable(entities) ==
    replace_space(IF entities = <<>> THEN <<"Data">> ELSE Get(entities[1], "name", <<"Data">>))

\* the condition of the second oracle call (image documents only)
WantsSecondCall(table_data, entities) == table_data = <<>> /\ entities # <<>>

\* the fallback condition without the test of table_data
WantsHeaderFallbackAlways(table_data, file_rows) == Len(file_rows) >= 2

\* the condition of the header-row fallback
WantsHeaderFallback(table_data, file_rows) == table_data = <<>> /\ Len(file_rows) >= 2

\* _do_extract: the table_data finally held by "extraction", the row stored
\* in the metadata table, and which sources were consulted
_do_extract(d) ==
    LET entities == Get(d.primary, "entities", <<>>)
        image == d.ext = "image"
        file_rows == IF image THEN <<>> ELSE d.file_rows
        second == IF image /\ WantsSecondCall(d.primary.table_data, entities)
                  THEN extract_table_data_from_image(entities, d.second)
                  ELSE [table_data |-> d.primary.table_data, asked |-> FALSE,
                        raised |-> FALSE, prompts |-> <<>>]
        fallback == WantsHeaderFallback(second.table_data, file_rows)
        rows == IF fallback
                THEN HeaderRows(Headers(file_rows[1]), Tail(file_rows))
                ELSE <<>>
        table_data == IF rows # <<>>
                      THEN <<[table |-> FallbackTable(entities), rows |-> rows]>>
                      ELSE second.table_data
    IN  [row |-> [er_diagram |-> schema_to_er_mermaid(d.primary),
                  sql_ddl |-> schema_to_ddl(d.primary),
                  raw_llm_response |-> [d.primary EXCEPT !.table_data = table_data],
                  extraction_data |-> IF table_data # <<>>
                                      THEN <<json_dumps(table_data)>> ELSE <<>>],
         table_data |-> table_data,
         second_asked |-> second.asked,
         prompts |-> second.prompts,
         fallback_ran |-> fallback,
         raised |-> second.raised]

----------------------------------------------------------------------------
(* The apply step: main.apply_schema *)

\* the two calls of apply_schema in the other order
apply_schema_ingest_first(d, ext) ==
    LET table_data == IF ext.extraction_data # <<>>
                      THEN json_loads(ext.extraction_data[1]) ELSE <<>>
        ingest == insert_extracted_data(d, table_data)
        schema == run_ddl(ingest.db, ext.sql_ddl)
    IN  [db |-> schema.db, raised |-> schema.raised \/ ingest.raised,
         rows_inserted |-> ingest.total,
         executed |-> schema.executed, resolved |-> ingest.resolved]

\* apply_schema on a stored extraction row: run_ddl, then insert_extracted_data
apply_schema(d, ext) ==
    LET schema == run_ddl(d, ext.sql_ddl)
        table_data == IF ext.extraction_data # <<>>
                      THEN json_loads(ext.extraction_data[1]) ELSE <<>>
        ingest == IF table_data # <<>>
                  THEN insert_extracted_data(schema.db, table_data)
                  ELSE [db |-> schema.db, total |-> 0, raised |-> FALSE, resolved |-> <<>>]
    IN  IF schema.raised
        THEN [db |-> schema.db, raised |-> TRUE, rows_inserted |-> 0,
              executed |-> schema.executed, resolved |-> <<>>]
        ELSE [db |-> ingest.db, raised |-> ingest.raised, rows_inserted |-> ingest.total,
              executed |-> schema.executed, resolved |-> ingest.resolved]

----------------------------------------------------------------------------
(* Documents: what is uploaded and what the extraction oracle answers *)

Attr(n, t) == [name |-> <<n>>, type |-> t]
Entity(n, attrs) == [name |-> n, attributes |-> attrs]
Rel(from, to, fk_in) == [from |-> from, to |-> to, type |-> "one-to-many", fk_in |-> fk_in]
Row(items) == [items |-> items]
Item(k, v) == <<<<k>>, v>>
Text(w) == StrVal(<<w>>)
Block(t, rows) == [table |-> <<t>>, rows |-> rows]

\* entity lists the oracle may infer
EntityLists ==
    { <<Entity(<<"Book">>, <<Attr("title", "TEXT")>>)>>,
      <<Entity(<<"Book">>, <<Attr("Title", "varchar"), Attr("Year", "integer")>>)>>,
      <<Entity(<<"Book">>, <<>>)>>,
      <<Entity(<<"Book">>, <<Attr("id", "INTEGER"), Attr("title", "TEXT")>>)>>,
      <<Entity(<<"Book">>, <<Attr("title", "TEXT"), Attr("id", "TEXT")>>)>>,
      <<Entity(<<"Book">>, <<Attr("ID", "INTEGER")>>),
        Entity(<<"Author">>, <<Attr("title", "TEXT")>>)>>,
      <<Entity(<<"Author">>, <<Attr("title", "REAL")>>),
        Entity(<<"Book">>, <<Attr("title", "TEXT"), Attr("Title", "TEXT")>>),
        Entity(<<"Data">>, <<Attr("title", "DATE")>>)>>,
      <<Entity(<<"Book">>, <<Attr("title", "TEXT")>>),
        Entity(<<"book">>, <<Attr("Year", "TEXT"), Attr("Year", "TEXT")>>)>>,
      <<[attributes |-> <<[type |-> "BLOB"], [name |-> <<"title">>]>>]>>,
      <<Entity(<<"SqliteData">>, <<Attr("title", "TEXT")>>),
        Entity(<<"Book">>, <<Attr("title", "TEXT")>>)>>,
      <<Entity(<<"Book", SPACE, "Data">>, <<[name |-> <<"title", SPACE, "id">>, type |-> "TEXT"]>>),
        Entity(<<"Book", SEMI, "Data">>, <<Attr("title", "TEXT")>>),
        Entity(<<"Book">>, <<Attr("title", "TEXT")>>)>>,
      <<>> }

\* relationship lists the oracle may infer
RelationshipLists ==
    { <<>>,
      <<Rel(<<"Author">>, <<"Book">>, <<"Book">>)>>,
      <<[from |-> <<"Author">>, to |-> <<"Book">>]>>,
      <<Rel(<<"Book", SPACE, "Data">>, <<"Book">>, <<"Book", SPACE, "Data">>),
        Rel(<<"Author">>, <<"Book">>, <<"Book">>)>>,
      <<Rel(<<"Author", SEMI, "Data">>, <<"Book">>, <<"Book">>)>>,
      <<Rel(<<"Author">>, <<"Book">>, <<SEMI, NL, DROP_BOOK, SEMI, "--">>)>> }

BookBatch == <<Block("Book", <<Row(<<Item("title", Text("Dune"))>>)>>)>>

\* keys and values of the rows the oracle may return
RowKeys == {"title", "Title", "TITLE", "Author", "AUTHOR", "id"}
RowValues == {Text("X"), Text("Y"), IntVal(1965), None}

\* rows of at most two keys, the keys distinct
OracleRows ==
    {Row(<<>>)}
        \cup {Row(<<Item(k, v)>>) : k \in RowKeys, v \in {Text("X"), Nested}}
        \cup {Row(<<Item(k[1], Text("X")), Item(k[2], v)>>) :
                 k \in {kk \in RowKeys \X RowKeys : kk[1] # kk[2]}, v \in RowValues}

\* batches of several rows: a row that cannot be stored among rows that can,
\* values of another type than the column declares, a block for a missing
\* table before a block for an existing one, a row that is no mapping, a row
\* that carries the key id
MixedBatches ==
    { <<Block("Book", <<Row(<<Item("title", Text("X"))>>),
                        Row(<<Item("title", Nested), Item("Year", IntVal(1965))>>),
                        Row(<<Item("title", Text("Y"))>>)>>)>>,
      <<Block("Book", <<Row(<<Item("Year", Text("1965"))>>),
                        Row(<<Item("Year", Text("Dune")), Item("Title", IntVal(1965))>>),
                        Row(<<Item("year", IntVal(1965))>>)>>)>>,
      <<Block("Author", <<Row(<<Item("title", Text("X"))>>)>>),
        Block("book", <<Row(<<Item("TITLE", Text("Y"))>>)>>),
        [rows |-> <<Row(<<Item("title", Text("X"))>>)>>]>>,
      <<Block("Book", <<Row(<<Item("title", Text("X"))>>), [scalar |-> <<"Dune">>]>>)>>,
      <<Block("Book", <<>>), Block("Book", <<Row(<<Item("title", Nested)>>)>>)>>,
      <<Block("Book", <<Row(<<Item("id", IntVal(1965)), Item("title", Text("X"))>>)>>)>> }

\* raw rows of a delimited or spreadsheet file
FileRowLists ==
    { <<>>,
      << <<<<"Title">>, <<"Year">>>>, <<<<"Dune">>, <<"1965">>>>, <<<<"Foo">>>> >>,
      << <<<<"Title">>, <<"Year">>>> >>,
      << <<<<SPACE, "Title", SPACE>>, <<>>>>, <<<<"Dune">>, <<"1965">>, <<"Foo">>>>,
         <<<<"Foo">>, <<"X">>>> >>,
      << <<<<"Title">>, <<"Title">>>>, <<<<"Dune">>, <<"Foo">>>> >>,
      << <<<<"Title">>, <<"Year">>>>, <<<<"Foo">>>>, <<>> >> }

Doc(ext, entities, relationships, table_data, second, file_rows) ==
    [ext |-> ext,
     primary |-> [entities |-> entities, relationships |-> relationships,
                  table_data |-> table_data],
     second |-> second,
     file_rows |-> file_rows]

\* every inferred model, rendered and applied with one simple batch
SchemaDocs ==
    {Doc("image", e, r, BookBatch, <<>>, <<>>) : e \in EntityLists, r \in RelationshipLists}

\* one table with two text columns (or the tables of the mixed batches), many rows
IngestDocs ==
    {Doc("image", <<Entity(<<"Book">>, <<Attr("Title", "TEXT"), Attr("Author", "TEXT")>>)>>,
         <<>>, <<Block("Book", <<r>>)>>, <<>>, <<>>) : r \in OracleRows}
        \cup {Doc("image", e, <<>>, b, <<>>, <<>>) :
                 e \in { <<Entity(<<"Book">>, <<Attr("title", "TEXT"), Attr("Year", "INTEGER")>>)>>,
                         <<Entity(<<"Book">>, <<Attr("title", "INTEGER"), Attr("id", "INTEGER")>>),
                           Entity(<<"Data">>, <<Attr("title", "TEXT")>>)>> },
                 b \in MixedBatches}

\* every combination of the three row sources
SourceDocs ==
    {Doc(x, e, <<>>, p, s, f) :
        x \in {"image", "csv", "xlsx"},
        e \in { <<Entity(<<"Book">>, <<Attr("title", "TEXT"), Attr("year", "TEXT")>>)>>,
                <<Entity(<<"Book", SPACE, "Data">>, <<Attr("id", "INTEGER")>>)>>,
                <<>> },
        p \in {<<>>, BookBatch},
        s \in {<<>>, <<Block("Book", <<Row(<<Item("title", Text("Y"))>>)>>)>>},
        f \in FileRowLists}

\* models for the diagram: an entity with more attributes than the diagram
\* shows, with and without relationships, one of them many-to-many
DiagramDocs ==
    {Doc("image",
         <<Entity(<<"Book">>, <<Attr("title", "TEXT"), Attr("Year", "INTEGER"),
                                Attr("Author", "TEXT"), Attr("isbn", "TEXT"),
                                Attr("pages", "INTEGER"), Attr("price", "REAL")>>),
           Entity(<<"Author", SPACE, "Data">>, <<>>)>>,
         r, BookBatch, <<>>, <<>>) :
        r \in { <<>>,
                <<[from |-> <<"Author", SPACE, "Data">>, to |-> <<"Book">>,
                   type |-> "many-to-many"]>> }}

\* rows keyed by the attribute names of their entity, as the extraction prompt
\* asks: names without and with a space
KeyedByAttributeDocs ==
    {Doc("image", <<Entity(<<"Book">>, <<[name |-> a, type |-> "TEXT"], Attr("title", "TEXT")>>)>>,
         <<>>,
         <<[table |-> <<"Book">>,
            rows |-> <<Row(<< <<a, Text("X")>>, Item("title", Text("Dune")) >>)>>]>>,
         <<>>, <<>>) :
        a \in { <<"Author">>, <<"Year", SPACE, "Data">> }}

Docs == SchemaDocs \cup IngestDocs \cup SourceDocs \cup DiagramDocs \cup KeyedByAttributeDocs

\* the end-to-end example: Book{title TEXT}, no relationships, one row
BookDoc ==
    Doc("image", <<Entity(<<"Book">>, <<Attr("title", "TEXT")>>)>>, <<>>, BookBatch, <<>>, <<>>)

\* a later document of the same project, whose relationship names a foreign-key
\* holder that closes the comment and carries a statement of its own
DropDoc ==
    Doc("image", <<Entity(<<"Book">>, <<Attr("title", "TEXT")>>)>>,
        <<Rel(<<"Author">>, <<"Book">>, <<SEMI, NL, DROP_BOOK, SEMI, "--">>)>>,
        BookBatch, <<>>, <<>>)

LaterDocs == {DropDoc}

----------------------------------------------------------------------------
(* The calls *)

NoRow == [stored |-> FALSE]

Init ==
    /\ doc \in Docs
    /\ extraction = NoRow
    /\ db = NoDb
    /\ last = [op |-> "none", raised |-> FALSE]
    /\ executed = <<>>
    /\ resolved = <<>>
    /\ calls = 0

\* POST /api/upload: another document is uploaded to the project
Upload ==
    /\ doc \notin LaterDocs
    /\ doc' \in LaterDocs
    /\ last' = [op |-> "upload", raised |-> FALSE]
    /\ UNCHANGED <<extraction, db, executed, resolved, calls>>

\* POST /api/extract
DoExtract ==
    /\ calls < MaxCalls
    /\ \E r \in {_do_extract(doc)} :
           /\ extraction' = IF r.raised THEN extraction
                             ELSE [stored |-> TRUE, er_diagram |-> r.row.er_diagram,
                                   sql_ddl |-> r.row.sql_ddl,
                                   raw_llm_response |-> r.row.raw_llm_response,
                                   extraction_data |-> r.row.extraction_data]
           /\ last' = [op |-> "extract", raised |-> r.raised, table_data |-> r.table_data,
                       second_asked |-> r.second_asked, prompts |-> r.prompts,
                       fallback_ran |-> r.fallback_ran]
    /\ calls' = calls + 1
    /\ UNCHANGED <<doc, db, executed, resolved>>

\* POST /api/apply-schema
ApplySchema ==
    /\ calls < MaxCalls
    /\ IF ~extraction.stored
       THEN /\ last' = [op |-> "apply", raised |-> TRUE, fresh |-> ~db.exists]
            /\ UNCHANGED <<db, executed, resolved>>
       ELSE \E r \in {apply_schema(db, extraction)} :
                /\ db' = r.db
                /\ last' = [op |-> "apply", raised |-> r.raised, fresh |-> ~db.exists,
                            rows_inserted |-> r.rows_inserted]
                /\ executed' = r.executed
                /\ resolved' = r.resolved
    /\ calls' = calls + 1
    /\ UNCHANGED <<doc, extraction>>

\* run_ddl on the statements rendered from the document's model
RunDdl ==
    /\ calls < MaxCalls
    /\ \E r \in {run_ddl(db, schema_to_ddl(doc.primary))} :
           /\ db' = r.db
           /\ last' = [op |-> "run_ddl", raised |-> r.raised, fresh |-> ~db.exists]
           /\ executed' = r.executed
    /\ calls' = calls + 1
    /\ UNCHANGED <<doc, extraction, resolved>>

\* insert_extracted_data on one of the document's row batches
InsertExtractedData ==
    /\ calls < MaxCalls
    /\ \E table_data \in {doc.primary.table_data, doc.second} :
          \E r \in {insert_extracted_data(db, table_data)} :
              /\ db' = r.db
              /\ last' = [op |-> "insert", raised |-> r.raised, fresh |-> ~db.exists,
                          table_data |-> table_data, total |-> r.total]
              /\ resolved' = r.resolved
    /\ calls' = calls + 1
    /\ UNCHANGED <<doc, extraction, executed>>

\* GET /api/preview/{project_id}
GetTablePreview ==
    /\ calls < MaxCalls
    /\ last' = [op |-> "preview", raised |-> FALSE, fresh |-> ~db.exists,
                tables |-> get_table_preview(db, PreviewLimit)]
    /\ calls' = calls + 1
    /\ UNCHANGED <<doc, extraction, db, executed, resolved>>

Next ==
    \/ Upload
    \/ DoExtract
    \/ ApplySchema
    \/ RunDdl
    \/ InsertExtractedData
    \/ GetTablePreview

Spec == Init /\ [][Next]_vars

----------------------------------------------------------------------------
(* Properties *)

IsPrefix(a, b) == Len(a) <= Len(b) /\ SubSeq(b, 1, Len(a)) = a

RECURSIVE RowCount(_)
RowCount(tables) == IF tables = <<>> THEN 0 ELSE Len(Head(tables).rows) + RowCount(Tail(tables))

\* rows of the resolver log that went to the given table and could be bound
BoundFor(log, name) == {n \in DOMAIN log : log[n].table = name /\ CanBind(log[n].vals)}

\* C1: two successive run_ddl calls with the rendered statements on a fresh
\* destination: the second call raises no error and leaves the store (tables,
\* columns per table, rows) as the first call left it.  Stated for the models
\* without relationships, every statement handed to SQLite being a CREATE TABLE
\* statement.
C1_SecondRunDdlIsNoOp ==
    [][( /\ calls = 1
         /\ last.op = "run_ddl"
         /\ last.fresh
         /\ last'.op = "run_ddl"
         /\ doc.primary.relationships = <<>>
         /\ \A i \in DOMAIN executed' : IsCreateTable(SqlTokens(executed'[i])) )
          => (~last'.raised /\ db' = db)]_vars

DeclaredType(d, table, col) ==
    LET infos == TableInfo(d, table)
    IN  infos[CHOOSE c \in DOMAIN infos : infos[c].name = col].type

\* a value of another type than the column declares: text that is no number
\* in a numeric column, a number in a text column
ViolatesDeclaredType(type, v) ==
    \/ type \in {"INTEGER", "REAL", "DATE"} /\ v[1] = "str" /\ ~IsNumericText(v)
    \/ type = "TEXT" /\ v[1] = "int"

RowViolatesType(d, e) ==
    \E i \in DOMAIN e.cols : ViolatesDeclaredType(DeclaredType(d, e.table, e.cols[i]), e.vals[i])

\* C3 as stated: a batch of n >= 3 rows for one existing table, exactly one row
\* carrying a value of another type than its column declares, returns n - 1.
C3_TypeViolationDropsRow ==
    ( /\ last.op = "insert"
      /\ ~last.raised
      /\ Len(last.table_data) = 1
      /\ Len(resolved) >= 3
      /\ Len(resolved) = Len(last.table_data[1].rows)
      /\ Cardinality({n \in DOMAIN resolved : RowViolatesType(db, resolved[n])}) = 1 )
        => last.total = Len(resolved) - 1

\* C3 amended: an ingestion call that returns has stored, in each table, one row
\* per row of the batch that resolved for that table and could be bound, after
\* the rows the table held; the count it returns is the number of rows it stored.
\* A row that cannot be bound is the only row dropped; a value of another type
\* than the column declares is stored and counted.
C3_CountIsRowsStored ==
    [][(last'.op = "insert" /\ ~last'.raised)
          => /\ last'.total = RowCount(db'.tables) - RowCount(db.tables)
             /\ last'.total = Cardinality({n \in DOMAIN resolved' : CanBind(resolved'[n].vals)})
             /\ Len(db'.tables) = Len(db.tables)
             /\ \A k \in DOMAIN db.tables :
                   /\ IsPrefix(db.tables[k].rows, db'.tables[k].rows)
                   /\ Len(db'.tables[k].rows) - Len(db.tables[k].rows)
                         = Cardinality(BoundFor(resolved', db.tables[k].name))]_vars

\* C3 witness: three rows, the middle one carrying a nested value: 2 returned,
\* 2 stored
C3_Witness ==
    /\ last.op = "insert"
    /\ ~last.raised
    /\ Len(resolved) = 3
    /\ ~CanBind(resolved[2].vals)
    /\ CanBind(resolved[1].vals) /\ CanBind(resolved[3].vals)
    /\ last.total = 2
    /\ RowCount(db.tables) = 2

\* C4: when the primary result carries row data, the batch stored for the apply
\* step is that row data: no second oracle call, no header-row fallback.
C4_PrimaryRowsWin ==
    (last.op = "extract" /\ doc.primary.table_data # <<>>)
        => /\ ~last.second_asked
           /\ ~last.fallback_ran
           /\ last.table_data = doc.primary.table_data
           /\ extraction.extraction_data # <<>>
           /\ json_loads(extraction.extraction_data[1]) = doc.primary.table_data

\* C4 witness: a delimited file with raw rows, primary row data present
C4_Witness ==
    /\ last.op = "extract"
    /\ doc.ext = "csv"
    /\ doc.primary.table_data = BookBatch
    /\ Len(doc.file_rows) >= 2
    /\ json_loads(extraction.extraction_data[1]) = BookBatch

\* the header line as the fallback reads it: cells stripped, a blank cell named
\* col_<position, from 0>
HeaderCell(row0, i) ==
    IF \A p \in DOMAIN row0[i] : row0[i][p] \in Whitespace
    THEN <<"col_", Digit[i]>>
    ELSE strip(row0[i])

\* the data rows (positions in the file) at least as long as the header line
KeptRows(file_rows) == {r \in 2..Len(file_rows) : Len(file_rows[r]) >= Len(file_rows[1])}

\* the n-th kept row, in file order
NthKept(file_rows, n) ==
    CHOOSE r \in KeptRows(file_rows) :
        Cardinality({q \in KeptRows(file_rows) : q < r}) = n - 1

\* the table the fallback rows are attached to
FirstEntityTable(entities) ==
    IF entities = <<>> \/ "name" \notin DOMAIN entities[1] THEN <<"Data">>
    ELSE [p \in DOMAIN entities[1].name |->
             IF entities[1].name[p] = SPACE THEN "_" ELSE entities[1].name[p]]

\* C5 as stated: every kept row becomes the mapping header[i] -> cell[i] over the
\* positions of the first raw row.
C5_HeaderCellsAreKeys ==
    (last.op = "extract" /\ last.fallback_ran /\ KeptRows(doc.file_rows) # {})
        => /\ Len(last.table_data) = 1
           /\ Len(last.table_data[1].rows) = Cardinality(KeptRows(doc.file_rows))
           /\ \A n \in DOMAIN last.table_data[1].rows :
                 last.table_data[1].rows[n].items
                     = [i \in DOMAIN doc.file_rows[1] |->
                           <<doc.file_rows[1][i],
                             StrVal(doc.file_rows[NthKept(doc.file_rows, n)][i])>>]

\* C5 amended: when the header-row fallback runs, the data rows shorter than the
\* first raw row are dropped; when none is left no batch is stored; otherwise one
\* block is stored, attached to the first entity's table name (Data without one),
\* with one mapping per remaining row, in file order.  The keys of a mapping are
\* the distinct header cells, stripped (col_<i> for a blank cell), in order of
\* first occurrence, and a key maps to the cell at the last position whose
\* header cell is that key.
C5_HeaderRowFallback ==
    (last.op = "extract" /\ last.fallback_ran)
        => LET rows0 == doc.file_rows
               Hdr(i) == HeaderCell(rows0[1], i)
               Pos(k) == {i \in DOMAIN rows0[1] : Hdr(i) = k}
               First(k) == CHOOSE i \in Pos(k) : \A h \in Pos(k) : i <= h
               Last(k) == CHOOSE i \in Pos(k) : \A h \in Pos(k) : h <= i
           IN  IF KeptRows(rows0) = {}
               THEN last.table_data = <<>> /\ extraction.extraction_data = <<>>
               ELSE /\ Len(last.table_data) = 1
                    /\ json_loads(extraction.extraction_data[1]) = last.table_data
                    /\ last.table_data[1].table
                          = FirstEntityTable(doc.primary.entities)
                    /\ Len(last.table_data[1].rows) = Cardinality(KeptRows(rows0))
                    /\ \A n \in DOMAIN last.table_data[1].rows :
                          LET items == last.table_data[1].rows[n].items
                              cells == rows0[NthKept(rows0, n)]
                          IN  /\ {items[a][1] : a \in DOMAIN items}
                                    = {Hdr(i) : i \in DOMAIN rows0[1]}
                              /\ \A a, b \in DOMAIN items :
                                    a < b => First(items[a][1]) < First(items[b][1])
                              /\ \A a \in DOMAIN items :
                                    items[a][2] = StrVal(cells[Last(items[a][1])])

\* C5 witness: raw rows [[Title, Year], [Dune, 1965], [Foo]] with entity
\* Book{title, year}: the stored batch is the one row {Title: Dune, Year: 1965},
\* and applying it to a fresh destination inserts one row into Book
C5_Witness ==
    /\ last.op = "apply"
    /\ last.fresh
    /\ ~last.raised
    /\ doc.file_rows = << <<<<"Title">>, <<"Year">>>>, <<<<"Dune">>, <<"1965">>>>, <<<<"Foo">>>> >>
    /\ extraction.stored
    /\ extraction.extraction_data # <<>>
    /\ json_loads(extraction.extraction_data[1])
          = <<Block("Book", <<Row(<<Item("Title", Text("Dune")), Item("Year", Text("1965"))>>)>>)>>
    /\ last.rows_inserted = 1
    /\ db.tables[1].rows = << <<IntVal(1), Text("Dune"), Text("1965")>> >>

\* the text of the stored schema from its i-th CREATE TABLE to the next one
StatementText(i) ==
    LET ddl == extraction.sql_ddl
        starts == {p \in DOMAIN ddl : ddl[p] = CREATE_KW}
        from == CHOOSE p \in starts : Cardinality({q \in starts : q < p}) = i - 1
        later == {q \in starts : q > from}
    IN  SubSeq(ddl, from,
               IF later = {} THEN Len(ddl)
               ELSE (CHOOSE q \in later : \A h \in later : q <= h) - 1)

\* the columns of the i-th CREATE TABLE statement of the stored schema text
RenderedColumns(i) ==
    LET toks == SqlTokens(StatementText(i))
    IN  CreateColumns(SubSeq(toks, 1, IndexOf(toks, <<"word", SEMI>>) - 1))

\* the column a declared attribute is to render as
DeclaredColumn(a) ==
    [name |-> IF "name" \in DOMAIN a
              THEN [p \in DOMAIN a.name |-> IF a.name[p] = SPACE THEN "_" ELSE a.name[p]]
              ELSE <<"col">>,
     type |-> IF "type" \in DOMAIN a /\ UpperPiece(a.type) \in SqlTypes
              THEN UpperPiece(a.type) ELSE "TEXT",
     pk |-> FALSE]

NamesId(attrs) == \E i \in DOMAIN attrs : "name" \in DOMAIN attrs[i] /\ attrs[i].name = <<"id">>

IdPrimaryKey == [name |-> <<"id">>, type |-> "INTEGER", pk |-> TRUE]

\* C6 as stated: every entity that declares no attribute named id, an entity
\* without attributes included, renders id INTEGER PRIMARY KEY AUTOINCREMENT
\* first, then its declared attributes in order.
C6_IdPrependedUnlessDeclared ==
    extraction.stored
        => \A i \in DOMAIN extraction.raw_llm_response.entities :
              LET attrs == Get(extraction.raw_llm_response.entities[i], "attributes", <<>>)
              IN  ~NamesId(attrs)
                     => RenderedColumns(i)
                           = <<IdPrimaryKey>> \o [a \in DOMAIN attrs |-> DeclaredColumn(attrs[a])]

\* C6 amended: every entity with at least one attribute, none of them named
\* exactly id, renders id INTEGER PRIMARY KEY AUTOINCREMENT first, then its
\* declared attributes in order; an entity without attributes renders the single
\* column id INTEGER, which is no primary key.
C6_IdPrependedToDeclaredAttributes ==
    extraction.stored
        => \A i \in DOMAIN extraction.raw_llm_response.entities :
              LET attrs == Get(extraction.raw_llm_response.entities[i], "attributes", <<>>)
              IN  /\ (attrs # <<>> /\ ~NamesId(attrs))
                        => RenderedColumns(i)
                              = <<IdPrimaryKey>> \o [a \in DOMAIN attrs |-> DeclaredColumn(attrs[a])]
                  /\ attrs = <<>>
                        => RenderedColumns(i) = <<[name |-> <<"id">>, type |-> "INTEGER", pk |-> FALSE]>>

\* C6 witness: attributes [title] rendered as id (primary, auto) then title
C6_Witness ==
    /\ extraction.stored
    /\ extraction.raw_llm_response.entities = <<Entity(<<"Book">>, <<Attr("title", "TEXT")>>)>>
    /\ RenderedColumns(1) = <<IdPrimaryKey, [name |-> <<"title">>, type |-> "TEXT", pk |-> FALSE]>>

\* the stored extraction of the end-to-end example: entities [Book{title TEXT}],
\* no relationships, batch [{table: Book, rows: [{title: Dune}]}]
StoresBookExample ==
    /\ extraction.stored
    /\ extraction.raw_llm_response.entities = BookDoc.primary.entities
    /\ extraction.raw_llm_response.relationships = <<>>
    /\ extraction.extraction_data # <<>>
    /\ json_loads(extraction.extraction_data[1]) = BookBatch

BookTable ==
    [name |-> <<"Book">>,
     cols |-> <<IdPrimaryKey, [name |-> <<"title">>, type |-> "TEXT", pk |-> FALSE]>>,
     rows |-> << <<IntVal(1), Text("Dune")>> >>]

BookPreview ==
    <<[table_name |-> <<"Book">>,
       columns |-> <<<<"id">>, <<"title">>>>,
       rows |-> << <<<<<<"id">>, IntVal(1)>>, <<<<"title">>, Text("Dune")>>>> >>]>>

\* C7: the apply step executes the stored schema statements first and ingests
\* the stored batch into the store they leave: when a statement raises nothing
\* is ingested, otherwise the rows reported are those ingested into the tables
\* as they are after the statements.  On a fresh destination with entities
\* [Book{title TEXT}], no relationships and batch [{table: Book, rows: [{title:
\* Dune}]}], the apply step leaves table Book with columns [id, title] and the
\* row (1, Dune) and reports 1 row inserted, and the preview that follows
\* returns table_name Book, columns [id, title], rows [{id: 1, title: Dune}].
C7_SchemaBeforeRows ==
    [][ /\ (last'.op = "apply" /\ extraction.stored)
            => LET schema == run_ddl(db, extraction.sql_ddl)
                   table_data == IF extraction.extraction_data # <<>>
                                 THEN json_loads(extraction.extraction_data[1]) ELSE <<>>
               IN  /\ executed' = schema.executed
                   /\ schema.raised => (last'.raised /\ db' = schema.db)
                   /\ (~schema.raised /\ table_data = <<>>)
                         => (db' = schema.db /\ last'.rows_inserted = 0)
                   /\ (~schema.raised /\ table_data # <<>> /\ ~last'.raised)
                         => /\ last'.rows_inserted
                                  = RowCount(db'.tables) - RowCount(schema.db.tables)
                            /\ last'.rows_inserted
                                  = Cardinality({n \in DOMAIN resolved' :
                                                    CanBind(resolved'[n].vals)})
                            /\ \A n \in DOMAIN resolved' :
                                  TableIndex(schema.db, resolved'[n].table) # 0
        /\ (last'.op = "apply" /\ last'.fresh /\ StoresBookExample)
            => /\ ~last'.raised
               /\ last'.rows_inserted = 1
               /\ \E k \in DOMAIN db'.tables : db'.tables[k] = BookTable
        /\ (last.op = "apply" /\ last.fresh /\ StoresBookExample /\ last'.op = "preview")
            => last'.tables = BookPreview ]_vars

\* C7 witness: extraction of the example, apply on the fresh destination,
\* preview: Book(id, title) holds (1, Dune) and the preview returns it
C7_Witness ==
    /\ calls = 3
    /\ StoresBookExample
    /\ last.op = "preview"
    /\ last.tables = BookPreview
    /\ \E k \in DOMAIN db.tables : db.tables[k] = BookTable

\* the statements rendered from the entities of the document's model alone
EntityStatements ==
    _split_ddl(schema_to_ddl([doc.primary EXCEPT !.relationships = <<>>]))

\* C8: no text rendered for a relationship is executed by run_ddl: every
\* statement run_ddl hands to SQLite is one of the statements rendered for the
\* entities, whatever strings the relationships' from, to and fk_in names hold.
C8_RelationshipTextNeverExecuted ==
    last.op = "run_ddl"
        => \A i \in DOMAIN executed :
              \E j \in DOMAIN EntityStatements : executed[i] = EntityStatements[j]

\* C9: run_ddl executes every statement of the sequence, a failing statement
\* notwithstanding: the statements handed to SQLite are all the statements of
\* the text that are no comments, and every table a valid CREATE TABLE
\* statement of the text names exists afterwards.  Stated for the models
\* without relationships.
C9_FailingStatementIsIsolated ==
    (last.op = "run_ddl" /\ doc.primary.relationships = <<>>)
        => LET stmts == SelectSeq(_split_ddl(schema_to_ddl(doc.primary)), IsExecuted)
           IN  /\ executed = stmts
               /\ \A i \in DOMAIN stmts :
                     LET toks == SqlTokens(stmts[i])
                     IN  (IsCreateTable(toks) /\ ~HasDuplicateColumn(CreateColumns(toks)))
                            => TableIndex(db, toks[2][2]) # 0

\* C10: a run_ddl, insert_extracted_data or get_table_preview call drops and
\* alters no table and updates and deletes no row: every table of the store
\* is there after the call, with the columns it had, and its rows extend the
\* rows it held before the call.
C10_AppendOnly ==
    [][last'.op \in {"run_ddl", "insert", "preview"}
          => \A k \in DOMAIN db.tables :
                \E j \in DOMAIN db'.tables :
                    /\ db'.tables[j].name = db.tables[k].name
                    /\ db'.tables[j].cols = db.tables[k].cols
                    /\ IsPrefix(db.tables[k].rows, db'.tables[j].rows)]_vars

\* C11: while the destination store has not been created, get_table_preview
\* returns the empty list and insert_extracted_data returns 0 for any batch;
\* neither raises, neither creates the store.  Only run_ddl (called directly
\* or by the apply step) creates it, and run_ddl creates it on first use.
C11_OnlyRunDdlCreatesStore ==
    [][~db.exists
          => /\ last'.op = "preview"
                  => (last'.tables = <<>> /\ ~last'.raised /\ db' = db)
             /\ last'.op = "insert"
                  => (last'.total = 0 /\ ~last'.raised /\ db' = db)
             /\ db'.exists => last'.op \in {"run_ddl", "apply"}
             /\ last'.op = "run_ddl" => db'.exists]_vars

\* C11 witness: insert_extracted_data called with the batch of the example
\* before any run_ddl: 0 returned, the store still not created
C11_Witness ==
    /\ last.op = "insert"
    /\ last.fresh
    /\ last.table_data = BookBatch
    /\ last.total = 0
    /\ ~last.raised
    /\ ~db.exists

\* C12: insert_extracted_data never raises because of the content of a block
\* or a row: a block naming a missing or column-less table, a row that is no
\* mapping and a row holding nested values are skipped, the call returns its
\* count, and the rows it inserted before the skipped one are stored.
C12_IngestNeverRaises ==
    [][last'.op = "insert"
          => /\ ~last'.raised
             /\ RowCount(db'.tables) - RowCount(db.tables)
                   = Cardinality({n \in DOMAIN resolved' : CanBind(resolved'[n].vals)})]_vars

\* the entry the preview is to return for a table
PreviewEntry(t) ==
    LET cols == [i \in DOMAIN t.cols |-> t.cols[i].name]
        rows == SubSeq(t.rows, 1, IF Len(t.rows) < PreviewLimit THEN Len(t.rows)
                                  ELSE PreviewLimit)
    IN  [table_name |-> t.name, columns |-> cols,
         rows |-> [n \in DOMAIN rows |-> [i \in DOMAIN cols |-> <<cols[i], rows[n][i]>>]]]

\* C13: get_table_preview leaves the destination as it is, and on a created
\* destination returns one entry per table other than the internal table
\* sqlite_sequence, in the order of the tables: the table's name, all its
\* columns and its first rows, at most the default limit of them.
C13_PreviewShowsEveryUserTable ==
    [][last'.op = "preview"
          => /\ db' = db
             /\ ~last'.raised
             /\ db.exists
                   => last'.tables
                         = [n \in 1..Cardinality({k \in DOMAIN db.tables :
                                                    db.tables[k].name # <<SQLITE_SEQUENCE>>})
                               |-> PreviewEntry(
                                     db.tables[CHOOSE k \in DOMAIN db.tables :
                                        /\ db.tables[k].name # <<SQLITE_SEQUENCE>>
                                        /\ Cardinality({h \in 1..k :
                                              db.tables[h].name # <<SQLITE_SEQUENCE>>}) = n])]]_vars

\* C14: in every extraction pass in which the primary result carries no rows
\* and at least one entity was inferred, the second oracle call is made, for
\* the first entity's table name and its attribute names other than id, and
\* the header-row fallback runs only when that call recovered no rows.
C14_SecondCallBeforeFallback ==
    ( /\ last.op = "extract"
      /\ doc.primary.table_data = <<>>
      /\ Get(doc.primary, "entities", <<>>) # <<>> )
        => /\ ~last.raised
           /\ last.second_asked
           /\ last.prompts
                 = <<[table_name |-> FirstEntityTable(doc.primary.entities),
                      columns |-> NonIdNames(Get(doc.primary.entities[1], "attributes", <<>>))]>>
           /\ last.fallback_ran => doc.second = <<>>

\* C15 as stated: the insert column list of no table holds a column named id,
\* wherever the entity declared it.
C15_IdNeverInInsertColumns ==
    \A n \in DOMAIN resolved :
        \A i \in DOMAIN resolved[n].cols : lower(resolved[n].cols[i]) # <<"id">>

\* C15 amended: the insert column list of a table is its column list without
\* its first column when that column is named id (ignoring case), and with every
\* column otherwise: a column named id at a later position is in the list.  No
\* value of a row is written to a first column named id: the rows a call stores
\* hold there the next row number when it is the primary key the renderer
\* prepended, and null when the entity declared it.
C15_FirstIdColumnNeverWritten ==
    [][(last'.op = "insert" /\ ~last'.raised)
          => /\ \A n \in DOMAIN resolved' :
                   LET infos == TableInfo(db, resolved'[n].table)
                       names == [i \in DOMAIN infos |-> infos[i].name]
                   IN  resolved'[n].cols
                          = IF lower(names[1]) = <<"id">> THEN Tail(names) ELSE names
             /\ \A k \in DOMAIN db.tables :
                   lower(db.tables[k].cols[1].name) = <<"id">>
                      => \A r \in (Len(db.tables[k].rows) + 1)..Len(db'.tables[k].rows) :
                            db'.tables[k].rows[r][1]
                               = IF db.tables[k].cols[1].pk THEN IntVal(r) ELSE None]_vars

\* C15 witness: the row {id: 1965, title: X} ingested into Book(id, title, Year)
\* with the prepended id: insert columns [title, Year], stored id 1
C15_Witness ==
    /\ last.op = "insert"
    /\ ~last.raised
    /\ last.total = 1
    /\ Len(resolved) = 1
    /\ resolved[1].row = <<Item("id", IntVal(1965)), Item("title", Text("X"))>>
    /\ resolved[1].cols = <<<<"title">>, <<"Year">>>>
    /\ db.tables # <<>>
    /\ db.tables[1].cols[1] = IdPrimaryKey
    /\ db.tables[1].rows = << <<IntVal(1), Text("X"), None>> >>

\* a name with its spaces replaced by underscores
Underscored(n) == [q \in DOMAIN n |-> IF n[q] = SPACE THEN "_" ELSE n[q]]

\* the lines of the stored diagram
DiagramLines == split(extraction.er_diagram, NL)

\* the attributes of the i-th entity of the stored model
AttrsOf(i) == Get(extraction.raw_llm_response.entities[i], "attributes", <<>>)

\* the number of attributes the diagram is to show for the i-th entity
ShownAttrs(i) == IF Len(AttrsOf(i)) < MaxShownAttrs THEN Len(AttrsOf(i)) ELSE MaxShownAttrs

\* the line on which the i-th entity opens
RECURSIVE BlockStart(_)
BlockStart(i) == IF i = 1 THEN 2 ELSE BlockStart(i - 1) + ShownAttrs(i - 1) + 2

\* every entity is shown, in order, as an opening line, one line per attribute
\* for its first attributes (at most 5) in declared order, and a closing line
ShowsFirstAttributes ==
    \A i \in DOMAIN extraction.raw_llm_response.entities :
        /\ Len(DiagramLines) >= BlockStart(i) + ShownAttrs(i) + 1
        /\ DiagramLines[BlockStart(i)]
              = Indent
                    \o Underscored(Get(extraction.raw_llm_response.entities[i], "name", <<"Table">>))
                    \o <<SPACE, "{">>
        /\ \A j \in 1..ShownAttrs(i) :
              DiagramLines[BlockStart(i) + j]
                 = Indent \o Indent \o <<Get(AttrsOf(i)[j], "type", "TEXT"), SPACE>>
                      \o DeclaredColumn(AttrsOf(i)[j]).name
        /\ DiagramLines[BlockStart(i) + ShownAttrs(i) + 1] = Indent \o <<"}">>

\* C16 as stated: the diagram begins with erDiagram, shows for each entity its
\* first attributes (at most 5) in declared order, and is the placeholder diagram
\* whenever the model has no entities, with or without relationships.
C16_PlaceholderWithoutEntities ==
    extraction.stored
        => /\ Head(extraction.er_diagram) = ER_DIAGRAM
           /\ ShowsFirstAttributes
           /\ extraction.raw_llm_response.entities = <<>>
                 => extraction.er_diagram = PlaceholderDiagram

\* C16 amended: the diagram begins with erDiagram and shows for each entity its
\* first attributes (at most 5) in declared order; it is the placeholder diagram
\* exactly when the model has neither entities nor relationships.  A model with
\* relationships and no entities renders erDiagram and one line per relationship.
C16_PlaceholderForEmptyModel ==
    extraction.stored
        => LET ents == extraction.raw_llm_response.entities
               rels == extraction.raw_llm_response.relationships
           IN  /\ Head(extraction.er_diagram) = ER_DIAGRAM
               /\ ShowsFirstAttributes
               /\ (extraction.er_diagram = PlaceholderDiagram) <=> (ents = <<>> /\ rels = <<>>)
               /\ (ents = <<>> /\ rels # <<>>)
                     => /\ Len(DiagramLines) = 1 + Len(rels)
                        /\ \A i \in DOMAIN rels :
                              SubSeq(DiagramLines[1 + i], 1, 4 + Len(Get(rels[i], "from", <<>>)))
                                 = Indent \o Underscored(Get(rels[i], "from", <<>>))

\* C16 witness: an entity with 6 attributes followed by one with none: the
\* diagram shows 5 attribute lines for the first, the fifth being pages
C16_Witness ==
    /\ extraction.stored
    /\ Len(extraction.raw_llm_response.entities) = 2
    /\ Len(AttrsOf(1)) = 6
    /\ Head(extraction.er_diagram) = ER_DIAGRAM
    /\ DiagramLines[7] = Indent \o Indent \o <<"INTEGER", SPACE, "pages">>
    /\ DiagramLines[8] = Indent \o <<"}">>
    /\ DiagramLines[9] = Indent \o <<"Author", "_", "Data", SPACE, "{">>

\* the table of the store was rendered from the entity: it has the entity's
\* table name and, after a prepended id, one column per attribute
RenderedFrom(d, ent) ==
    LET infos == TableInfo(d, Underscored(ent.name))
        cols == IF infos # <<>> /\ infos[1] = IdPrimaryKey THEN Tail(infos) ELSE infos
    IN  /\ ent.attributes # <<>>
        /\ Len(cols) = Len(ent.attributes)
        /\ \A i \in DOMAIN cols : cols[i].name = DeclaredColumn(ent.attributes[i]).name

\* C17: a row keyed by attribute names of an entity (every key of the row is
\* exactly the name of an attribute), ingested into the table rendered from
\* that entity, has the value of each key in the column derived from the name
\* (spaces replaced by underscores), not null.
C17_RowKeyedByAttributeIsStored ==
    (last.op = "insert" /\ ~last.raised)
        => \A n \in DOMAIN resolved :
              \A e \in DOMAIN doc.primary.entities :
                 LET ent == doc.primary.entities[e]
                     row == resolved[n].row
                 IN  ( /\ DOMAIN ent = {"name", "attributes"}
                       /\ Underscored(ent.name) = Underscored(resolved[n].table)
                       /\ RenderedFrom(db, ent)
                       /\ \A j \in DOMAIN row :
                             \E a \in DOMAIN ent.attributes :
                                row[j][1] = ent.attributes[a].name )
                        => \A a \in DOMAIN ent.attributes :
                              \A j \in DOMAIN row :
                                 row[j][1] = ent.attributes[a].name
                                    => \E i \in DOMAIN resolved[n].cols :
                                          /\ resolved[n].cols[i]
                                                = DeclaredColumn(ent.attributes[a]).name
                                          /\ resolved[n].vals[i] = row[j][2]

====
